---- MODULE Spec2Model ----
(***************************************************************************)
(* Model of src/src/python_sqlite.py: the Database class (push, insert,    *)
(* update, select, create_table, table_exists, open_conn, close_conn) and  *)
(* the part of the SQLite engine its statements exercise.                  *)
(*                                                                         *)
(* Text (Python str, SQL statement text) is a sequence of chunks.  A chunk *)
(* is one character of a value ("x", "'", "7", ".") or one fixed fragment  *)
(* of a statement template ("insert into", "values", "where id =").  The   *)
(* statements are built as the code builds them, by concatenation, and the *)
(* engine lexes the whole statement, so a quote inside a value ends the    *)
(* literal exactly where SQLite would end it.                              *)
(*                                                                         *)
(* Python floats are modelled in tenths (265 is 26.5); str() of a float    *)
(* prints one fractional digit, as Python does for these values.           *)
(***************************************************************************)
EXTENDS Integers, Sequences, FiniteSets, TLC

\* ------------------------------------------------------------------------
\* Bounds
\* ------------------------------------------------------------------------
MaxRows == 2

\* The element of a one-element set.  Only({F(x) : x \in {e}}) is F(e), with
\* e worked out once, as a local variable of the code is.
Only(S) == CHOOSE x \in S : TRUE

\* ------------------------------------------------------------------------
\* Python values and records (dict, in insertion order)
\* ------------------------------------------------------------------------
PyBool(b) == [t |-> "bool", n |-> IF b THEN 1 ELSE 0, s |-> <<>>]
PyInt(i) == [t |-> "int", n |-> i, s |-> <<>>]
PyFloat(tenths) == [t |-> "float", n |-> tenths, s |-> <<>>]
PyStr(chars) == [t |-> "str", n |-> 0, s |-> chars]
PyNone == [t |-> "none", n |-> 0, s |-> <<>>]

Field(k, v) == [k |-> k, v |-> v]

Keys(data) == {data[i].k : i \in 1..Len(data)}

\* Python ==: bool, int and float compare by numeric value, str by content.
PyNumeric(v) == v.t \in {"bool", "int", "float"}
PyTenths(v) == IF v.t = "float" THEN v.n ELSE v.n * 10
PyEq(a, b) ==
    IF PyNumeric(a) /\ PyNumeric(b) THEN PyTenths(a) = PyTenths(b)
    ELSE a.t = b.t /\ a.s = b.s

DigitChars == <<"0", "1", "2", "3", "4", "5", "6", "7", "8", "9">>
IsDigit(c) == \E d \in 1..Len(DigitChars) : DigitChars[d] = c
DigitVal(c) == (CHOOSE d \in 1..Len(DigitChars) : DigitChars[d] = c) - 1

RECURSIVE IntStr(_)
IntStr(i) ==
    IF i < 10 THEN <<DigitChars[i + 1]>>
    ELSE IntStr(i \div 10) \o <<DigitChars[(i % 10) + 1]>>

FloatStr(tenths) == IntStr(tenths \div 10) \o <<".">> \o IntStr(tenths % 10)

\* str(value)
str(v) ==
    CASE v.t = "bool" -> IF v.n = 1 THEN <<"T", "r", "u", "e">>
                         ELSE <<"F", "a", "l", "s", "e">>
      [] v.t = "int" -> IntStr(v.n)
      [] v.t = "float" -> FloatStr(v.n)
      [] v.t = "str" -> v.s
      [] OTHER -> <<"N", "o", "n", "e">>

\* a type inference that stores integers as text
sqlite_type_int_as_text(var) ==
    CASE var.t = "bool" -> "text"
      [] var.t = "int" -> "text"
      [] var.t = "str" -> "text"
      [] var.t = "float" -> "real"
      [] OTHER -> ""

sqlite_type(var) ==
    CASE var.t = "bool" -> "text"
      [] var.t = "int" -> "integer"
      [] var.t = "str" -> "text"
      [] var.t = "float" -> "real"
      [] OTHER -> ""

\* s.strip(c)
RECURSIVE LStrip(_, _)
LStrip(s, c) == IF s # <<>> /\ Head(s) = c THEN LStrip(Tail(s), c) ELSE s
RECURSIVE RStrip(_, _)
RStrip(s, c) ==
    IF s # <<>> /\ s[Len(s)] = c THEN RStrip(SubSeq(s, 1, Len(s) - 1), c) ELSE s
strip(s, c) == RStrip(LStrip(s, c), c)

\* ------------------------------------------------------------------------
\* SQLite: storage values
\* ------------------------------------------------------------------------
SqlNull == [t |-> "null", n |-> 0, s |-> <<>>]
SqlInt(i) == [t |-> "integer", n |-> i, s |-> <<>>]
SqlReal(tenths) == [t |-> "real", n |-> tenths, s |-> <<>>]
SqlText(chars) == [t |-> "text", n |-> 0, s |-> chars]

IsIntLit(w) == w # <<>> /\ \A i \in 1..Len(w) : IsDigit(w[i])
IsRealLit(w) ==
    /\ Len(w) >= 3
    /\ w[Len(w) - 1] = "."
    /\ IsDigit(w[Len(w)])
    /\ IsIntLit(SubSeq(w, 1, Len(w) - 2))

RECURSIVE StrInt(_)
StrInt(w) ==
    IF w = <<>> THEN 0
    ELSE StrInt(SubSeq(w, 1, Len(w) - 1)) * 10 + DigitVal(w[Len(w)])

StrTenths(w) == StrInt(SubSeq(w, 1, Len(w) - 2)) * 10 + DigitVal(w[Len(w)])

\* The value a column of declared type ty stores for v (column affinity).
Affinity(ty, v) ==
    CASE ty = "text" ->
           IF v.t = "integer" THEN SqlText(IntStr(v.n))
           ELSE IF v.t = "real" THEN SqlText(FloatStr(v.n))
           ELSE v
      [] ty = "integer" ->
           IF v.t = "text" /\ IsIntLit(v.s) THEN SqlInt(StrInt(v.s))
           ELSE IF v.t = "text" /\ IsRealLit(v.s) THEN
               IF StrTenths(v.s) % 10 = 0 THEN SqlInt(StrTenths(v.s) \div 10)
               ELSE SqlReal(StrTenths(v.s))
           ELSE IF v.t = "real" /\ v.n % 10 = 0 THEN SqlInt(v.n \div 10)
           ELSE v
      [] ty = "real" ->
           IF v.t = "text" /\ IsIntLit(v.s) THEN SqlReal(StrInt(v.s) * 10)
           ELSE IF v.t = "text" /\ IsRealLit(v.s) THEN SqlReal(StrTenths(v.s))
           ELSE IF v.t = "integer" THEN SqlReal(v.n * 10)
           ELSE v
      [] OTHER -> v

\* SQL = on two storage values (NULL equals nothing).
SqlEq(a, b) ==
    CASE a.t = "null" \/ b.t = "null" -> FALSE
      [] a.t \in {"integer", "real"} /\ b.t \in {"integer", "real"} ->
           (IF a.t = "real" THEN a.n ELSE a.n * 10)
             = (IF b.t = "real" THEN b.n ELSE b.n * 10)
      [] OTHER -> a.t = b.t /\ a.s = b.s

\* sqlite3's conversion of a fetched column to a Python value.
ToPy(v) ==
    CASE v.t = "integer" -> PyInt(v.n)
      [] v.t = "real" -> PyFloat(v.n)
      [] v.t = "text" -> PyStr(v.s)
      [] OTHER -> PyNone

\* ------------------------------------------------------------------------
\* SQLite: tokenizer
\* ------------------------------------------------------------------------
Punct == {"insert into", "(", ")", ",", "values", ";", "update", "set", "=",
          "where id =", "select * from"}

Tok(k, s) == [k |-> k, s |-> s]

\* The tokenizer between chunks: mode is "out" between tokens, "str" inside
\* '...', "quote" after a ' inside '...' (the end of the string, or the first
\* half of ''), "word" inside a bare word, "comment" inside /* ... */; cur is
\* the text of the token being read, toks the tokens read.
LexState(mode, cur, toks) == [mode |-> mode, cur |-> cur, toks |-> toks]

\* a chunk read between tokens
LexOut(toks, c) ==
    IF c = "'" THEN LexState("str", <<>>, toks)
    ELSE IF c = "/*" THEN LexState("comment", <<>>, toks)
    ELSE IF c \in Punct THEN LexState("out", <<>>, Append(toks, Tok("punct", <<c>>)))
    ELSE LexState("word", <<c>>, toks)

LexStep(s, c) ==
    CASE s.mode = "str" ->
           IF c = "'" THEN LexState("quote", s.cur, s.toks)
           ELSE LexState("str", Append(s.cur, c), s.toks)
      [] s.mode = "quote" ->
           IF c = "'" THEN LexState("str", Append(s.cur, "'"), s.toks)
           ELSE LexOut(Append(s.toks, Tok("str", s.cur)), c)
      [] s.mode = "comment" ->
           IF c = "*/" THEN LexState("out", <<>>, s.toks) ELSE s
      [] s.mode = "word" ->
           IF c = "'" \/ c = "/*" \/ c \in Punct
           THEN LexOut(Append(s.toks, Tok("word", s.cur)), c)
           ELSE LexState("word", Append(s.cur, c), s.toks)
      [] OTHER -> LexOut(s.toks, c)

\* The state after the chunks lo..hi of sql, read in order from state s: the
\* first half, then the second half from where the first one ends.
RECURSIVE Lex(_, _, _, _)
Lex(sql, lo, hi, s) ==
    IF lo > hi THEN s
    ELSE IF lo = hi THEN LexStep(s, sql[lo])
    ELSE Only({Lex(sql, ((lo + hi) \div 2) + 1, hi, t)
                 : t \in {Lex(sql, lo, (lo + hi) \div 2, s)}})

\* The end of the input closes a word and a comment, not a string.
LexEnd(s) ==
    CASE s.mode = "str" -> [ok |-> FALSE, toks |-> s.toks]
      [] s.mode = "quote" -> [ok |-> TRUE, toks |-> Append(s.toks, Tok("str", s.cur))]
      [] s.mode = "word" -> [ok |-> TRUE, toks |-> Append(s.toks, Tok("word", s.cur))]
      [] OTHER -> [ok |-> TRUE, toks |-> s.toks]

Tokens(sql) ==
    Only({Only({LexEnd(t) : t \in {Lex(s, 1, Len(s), LexState("out", <<>>, <<>>))}})
            : s \in {sql}})

IsPunct(tok, c) == tok.k = "punct" /\ tok.s = <<c>>

\* A literal: a string, or a bare word that reads as a number.  Any other
\* bare word names a column that does not exist.
IsLiteral(tok) ==
    \/ tok.k = "str"
    \/ tok.k = "word" /\ (IsIntLit(tok.s) \/ IsRealLit(tok.s))

LitValue(tok) ==
    IF tok.k = "str" THEN SqlText(tok.s)
    ELSE IF IsIntLit(tok.s) THEN SqlInt(StrInt(tok.s))
    ELSE SqlReal(StrTenths(tok.s))

\* The comma-separated groups of a token list.
RECURSIVE Split(_, _, _)
Split(toks, cur, groups) ==
    IF toks = <<>> THEN Append(groups, cur)
    ELSE IF IsPunct(Head(toks), ",") THEN Split(Tail(toks), <<>>, Append(groups, cur))
    ELSE Split(Tail(toks), Append(cur, Head(toks)), groups)

Groups(toks) == Split(toks, <<>>, <<>>)

\* ------------------------------------------------------------------------
\* SQLite: the database file
\* ------------------------------------------------------------------------
TableNames == {"npcs"}

Column(name, ty) == [name |-> name, type |-> ty]

NoTable == [exists |-> FALSE, cols |-> <<>>, autoinc |-> FALSE, rows |-> {}, seq |-> 0]

ColNames(tbl) == {tbl.cols[i].name : i \in 1..Len(tbl.cols)}
ColType(tbl, name) ==
    tbl.cols[CHOOSE i \in 1..Len(tbl.cols) : tbl.cols[i].name = name].type

Max(a, b) == IF a >= b THEN a ELSE b
RECURSIVE MaxOf(_)
MaxOf(S) == IF S = {} THEN 0 ELSE LET x == CHOOSE x \in S : TRUE IN Max(x, MaxOf(S \ {x}))
MaxRowid(tbl) == MaxOf({r.rowid : r \in tbl.rows})

\* The store as the connection sees it: db the tables, rowid the connection's
\* last inserted rowid.  What the connection sees is what is committed:
\* insert and update commit, and sqlite3 commits a create table at once
\* unless a transaction is open, which only a failed insert or update of an
\* existing table leaves open, so never before the one table here exists.
Store(db, rowid) == [db |-> db, rowid |-> rowid]

\* What a statement does: err is "" or the sqlite3 exception it raises.
Done(err, st, rows) == [err |-> err, st |-> st, rows |-> rows]

\* The name a bare word gives, when it is one chunk.
Name(tok) == IF tok.k = "word" /\ Len(tok.s) = 1 THEN tok.s[1] ELSE ""

FirstPunct(T, c) ==
    IF \E i \in 1..Len(T) : IsPunct(T[i], c)
    THEN CHOOSE i \in 1..Len(T) : IsPunct(T[i], c) /\ \A j \in 1..(i - 1) : ~IsPunct(T[j], c)
    ELSE 0

\* create table "<name>" ("id" <type> not null unique, "<col>" <type>, ...,
\* primary key("id" [autoincrement]))
ExecCreate(st, table, cols, autoinc) ==
    IF st.db[table].exists THEN Done("OperationalError", st, {})
    ELSE IF \E i, j \in 1..Len(cols) : i # j /\ cols[i].name = cols[j].name
    THEN Done("OperationalError", st, {})
    ELSE LET db == [st.db EXCEPT ![table] =
                      [exists |-> TRUE, cols |-> cols, autoinc |-> autoinc,
                       rows |-> {}, seq |-> 0]]
         IN Done("", [st EXCEPT !.db = db], {})

\* The id of a row as the key its uniqueness is judged on.
IdKey(r) == r.vals["id"]

\* insert into <name> (<cols>) values (<vals>);
\* T the tokens, e the place of the first ")": the table named, the groups of
\* the column list and of the value list.
ParseInsertTokens(ok, T, e) ==
    LET shaped ==
            /\ ok
            /\ Len(T) >= 10
            /\ IsPunct(T[1], "insert into")
            /\ T[2].k = "word"
            /\ IsPunct(T[3], "(")
            /\ e > 4
            /\ e + 4 <= Len(T)
            /\ IsPunct(T[e + 1], "values")
            /\ IsPunct(T[e + 2], "(")
            /\ IsPunct(T[Len(T) - 1], ")")
            /\ IsPunct(T[Len(T)], ";")
    IN
    IF shaped
    THEN [ok |-> TRUE, table |-> Name(T[2]),
          cg |-> Groups(SubSeq(T, 4, e - 1)),
          vg |-> Groups(SubSeq(T, e + 3, Len(T) - 2))]
    ELSE [ok |-> FALSE, table |-> "", cg |-> <<>>, vg |-> <<>>]

ParseInsert(sql) ==
    Only({Only({ParseInsertTokens(L.ok, L.toks, e) : e \in {FirstPunct(L.toks, ")")}})
            : L \in {Tokens(sql)}})

\* The row a parsed insert adds.  A statement that fails changes nothing.
InsertRow(st, p) ==
    LET db == st.db
        cg == p.cg
        vg == p.vg
        table == p.table
        fail(err) == Done(err, st, {})
    IN
    IF ~p.ok THEN fail("OperationalError")
    ELSE IF \E i \in 1..Len(cg) : Len(cg[i]) # 1 \/ cg[i][1].k # "word"
    THEN fail("OperationalError")
    ELSE IF \E i \in 1..Len(vg) : Len(vg[i]) # 1 \/ ~IsLiteral(vg[i][1])
    THEN fail("OperationalError")
    ELSE IF table \notin DOMAIN db \/ ~db[table].exists THEN fail("OperationalError")
    ELSE IF \E i \in 1..Len(cg) : Name(cg[i][1]) \notin ColNames(db[table])
    THEN fail("OperationalError")
    ELSE IF Len(cg) # Len(vg) THEN fail("OperationalError")
    ELSE
      LET tbl == db[table]
          \* a column named twice takes its first value
          given(c) ==
              IF \E i \in 1..Len(cg) : Name(cg[i][1]) = c
              THEN LitValue(vg[CHOOSE i \in 1..Len(cg) :
                                 /\ Name(cg[i][1]) = c
                                 /\ \A j \in 1..(i - 1) : Name(cg[j][1]) # c][1])
              ELSE SqlNull
          vals == [c \in ColNames(tbl) |-> Affinity(ColType(tbl, c), given(c))]
          idv == Affinity(ColType(tbl, "id"), given("id"))
      IN
      IF tbl.autoinc THEN
          \* "id" is the rowid: an integer, or NULL for the next one
          IF idv.t \notin {"null", "integer"} THEN fail("IntegrityError")
          ELSE
            LET rid == IF idv.t = "null" THEN Max(tbl.seq, MaxRowid(tbl)) + 1 ELSE idv.n
                row == [rowid |-> rid, vals |-> [vals EXCEPT !["id"] = SqlInt(rid)]]
            IN
            IF \E r \in tbl.rows : r.rowid = rid THEN fail("IntegrityError")
            ELSE Done("", [st EXCEPT !.db[table].rows = @ \cup {row},
                                     !.db[table].seq = Max(@, rid),
                                     !.rowid = rid], {})
      ELSE
          IF idv.t = "null" THEN fail("IntegrityError")
          ELSE IF \E r \in tbl.rows : SqlEq(IdKey(r), idv) THEN fail("IntegrityError")
          ELSE
            LET rid == MaxRowid(tbl) + 1
                row == [rowid |-> rid, vals |-> vals]
            IN Done("", [st EXCEPT !.db[table].rows = @ \cup {row},
                                   !.rowid = rid], {})

ExecInsert(st, sql) == Only({InsertRow(s, p) : s \in {st}, p \in {ParseInsert(sql)}})

\* update <name> set <col> = <val>, ... [where id ='<id>']
\* T the tokens, w the place of "where id =" or 0: the table named, the
\* groups of the assignments, and the literal the rows are filtered on.
ParseUpdateTokens(ok, T, w) ==
    LET end == IF w > 0 THEN w - 1 ELSE Len(T)
        shaped ==
            /\ ok
            /\ Len(T) >= 6
            /\ IsPunct(T[1], "update")
            /\ T[2].k = "word"
            /\ IsPunct(T[3], "set")
            /\ w > 0 => (w = Len(T) - 1 /\ IsLiteral(T[Len(T)]))
            /\ end >= 6
    IN
    IF shaped
    THEN [ok |-> TRUE, table |-> Name(T[2]), ag |-> Groups(SubSeq(T, 4, end)),
          filtered |-> w > 0, id |-> IF w > 0 THEN LitValue(T[Len(T)]) ELSE SqlNull]
    ELSE [ok |-> FALSE, table |-> "", ag |-> <<>>, filtered |-> FALSE, id |-> SqlNull]

ParseUpdate(sql) ==
    Only({Only({ParseUpdateTokens(L.ok, L.toks, w) : w \in {FirstPunct(L.toks, "where id =")}})
            : L \in {Tokens(sql)}})

\* The rows a parsed update rewrites.
UpdateRows(st, p) ==
    LET db == st.db
        ag == p.ag
        table == p.table
        fail(err) == Done(err, st, {})
    IN
    IF ~p.ok THEN fail("OperationalError")
    ELSE IF \E i \in 1..Len(ag) :
              \/ Len(ag[i]) # 3
              \/ ag[i][1].k # "word"
              \/ ~IsPunct(ag[i][2], "=")
              \/ ~IsLiteral(ag[i][3])
    THEN fail("OperationalError")
    ELSE IF table \notin DOMAIN db \/ ~db[table].exists THEN fail("OperationalError")
    ELSE IF \E i \in 1..Len(ag) : Name(ag[i][1]) \notin ColNames(db[table])
    THEN fail("OperationalError")
    ELSE
      LET tbl == db[table]
          hit(r) ==
              p.filtered => SqlEq(IdKey(r), Affinity(ColType(tbl, "id"), p.id))
          \* a column set twice takes its last value
          set(c, old) ==
              IF \E i \in 1..Len(ag) : Name(ag[i][1]) = c
              THEN Affinity(ColType(tbl, c),
                            LitValue(ag[CHOOSE i \in 1..Len(ag) :
                                          /\ Name(ag[i][1]) = c
                                          /\ \A j \in (i + 1)..Len(ag) : Name(ag[j][1]) # c][3]))
              ELSE old
          new(r) ==
              IF ~hit(r) THEN r
              ELSE [rowid |-> IF tbl.autoinc THEN set("id", r.vals["id"]).n ELSE r.rowid,
                    vals |-> [c \in ColNames(tbl) |-> set(c, r.vals[c])]]
      IN
      IF \E r \in tbl.rows :
            /\ hit(r)
            /\ \/ set("id", r.vals["id"]).t = "null"
               \/ tbl.autoinc /\ set("id", r.vals["id"]).t # "integer"
      THEN fail("IntegrityError")
      ELSE IF Cardinality({IdKey(new(r)) : r \in tbl.rows}) # Cardinality(tbl.rows)
      THEN fail("IntegrityError")
      ELSE Done("", [st EXCEPT !.db[table].rows = {new(r) : r \in tbl.rows}], {})

ExecUpdate(st, sql) == Only({UpdateRows(s, p) : s \in {st}, p \in {ParseUpdate(sql)}})

\* select * from <name> where id = '<id>'
ParseSelectTokens(ok, T) ==
    LET shaped ==
            /\ ok
            /\ Len(T) = 4
            /\ IsPunct(T[1], "select * from")
            /\ T[2].k = "word"
            /\ IsPunct(T[3], "where id =")
            /\ IsLiteral(T[4])
    IN
    IF shaped THEN [ok |-> TRUE, table |-> Name(T[2]), id |-> LitValue(T[4])]
    ELSE [ok |-> FALSE, table |-> "", id |-> SqlNull]

ParseSelect(sql) == Only({ParseSelectTokens(L.ok, L.toks) : L \in {Tokens(sql)}})

\* The rows a parsed select fetches.
SelectRows(st, p) ==
    LET db == st.db
        table == p.table
    IN
    IF ~p.ok THEN Done("OperationalError", st, {})
    ELSE IF table \notin DOMAIN db \/ ~db[table].exists
    THEN Done("OperationalError", st, {})
    ELSE
      LET tbl == db[table]
          lit == Affinity(ColType(tbl, "id"), p.id)
      IN Done("", st, {r \in tbl.rows : SqlEq(IdKey(r), lit)})

ExecSelect(st, sql) == Only({SelectRows(s, p) : s \in {st}, p \in {ParseSelect(sql)}})

\* ------------------------------------------------------------------------
\* class Database
\* ------------------------------------------------------------------------
IDTypes == {"SEQUENTIAL", "UUID4"}

\* What a method call does: exc is "" or the exception it raises, ret the
\* value it returns (PyNone when it raises), obj the dict select returns.
Result(exc, ret, st) == [exc |-> exc, ret |-> ret, obj |-> <<>>, st |-> st]
Raise(exc, st) == Result(exc, PyNone, st)

\* self.conn.cursor() on a connection that is None
NoConn(st) == Raise("AttributeError", st)

\* a rowid lookup that never sees the insert
stale_insert_rowid(st) == IntStr(0)

last_insert_rowid(st) == IntStr(st.rowid)

table_exists(conn, st, table_name) ==
    IF ~conn THEN NoConn(st)
    ELSE Result("", PyBool(st.db[table_name].exists), st)

RECURSIVE data_fields(_)
data_fields(schema) ==
    IF schema = <<>> THEN <<>>
    ELSE <<Column(Head(schema).k, sqlite_type(Head(schema).v))>> \o data_fields(Tail(schema))

create_table(conn, st, table_name, schema, id_type) ==
    IF Len(schema) > 0 THEN
        LET id_field == IF id_type = "SEQUENTIAL" THEN <<Column("id", "integer")>>
                        ELSE <<Column("id", "text")>>
            pk_field == id_type = "SEQUENTIAL"
            fields == id_field \o data_fields(schema)
        IN
        IF ~conn THEN NoConn(st)
        ELSE Only({Result(x.err, PyNone, x.st)
                     : x \in {ExecCreate(st, table_name, fields, pk_field)}})
    ELSE Result("", PyNone, st)

\* the literal the code writes for a value
Literal(value) ==
    IF sqlite_type(value) = "text" THEN <<"'">> \o str(value) \o <<"'">>
    ELSE str(value)

RECURSIVE insert_columns(_)
insert_columns(data) ==
    IF data = <<>> THEN <<>>
    ELSE <<Head(data).k, ",">> \o insert_columns(Tail(data))

RECURSIVE insert_values(_)
insert_values(data) ==
    IF data = <<>> THEN <<>>
    ELSE Literal(Head(data).v) \o <<",">> \o insert_values(Tail(data))

\* uuid is the value uuid4() draws
insert(conn, st, table_name, data, id_type, uuid) ==
    IF Len(data) > 0 THEN
        LET row_id == IF id_type = "UUID4" THEN uuid ELSE <<>>
            columns0 == IF id_type = "UUID4" THEN <<"id", ",">> ELSE <<>>
            values0 == IF id_type = "UUID4" THEN <<"'">> \o row_id \o <<"'", ",">> ELSE <<>>
            columns == strip(columns0 \o insert_columns(data), ",")
            values == strip(values0 \o insert_values(data), ",")
            sql == <<"insert into", table_name, "(">> \o columns
                     \o <<")", "values", "(">> \o values \o <<")", ";">>
        IN
        IF ~conn THEN NoConn(st)
        ELSE Only({IF x.err # "" THEN Raise(x.err, x.st)
                   ELSE IF id_type = "SEQUENTIAL"
                   THEN Result("", PyStr(last_insert_rowid(x.st)), x.st)
                   ELSE Result("", PyStr(row_id), x.st)
                     : x \in {ExecInsert(st, sql)}})
    ELSE Result("", PyStr(<<>>), st)

\* id = str(value) of the "id" item, "" without one
RECURSIVE find_id(_, _)
find_id(data, id) ==
    IF data = <<>> THEN id
    ELSE find_id(Tail(data), IF Head(data).k = "id" THEN str(Head(data).v) ELSE id)

RECURSIVE update_fields(_)
update_fields(data) ==
    IF data = <<>> THEN <<>>
    ELSE <<Head(data).k, "=">> \o Literal(Head(data).v) \o <<",">> \o update_fields(Tail(data))

\* an update that validates the id and executes nothing
update_keeps_values(conn, st, table_name, data) ==
    IF Len(data) > 0 THEN
        IF find_id(data, <<>>) = <<>> THEN Raise("ValueError", st)
        ELSE IF ~conn THEN NoConn(st)
        ELSE Result("", PyStr(find_id(data, <<>>)), st)
    ELSE Result("", PyNone, st)

update(conn, st, table_name, data) ==
    IF Len(data) > 0 THEN
        LET id == find_id(data, <<>>)
            fields == strip(update_fields(data), ",")
            sql == <<"update", table_name, "set">> \o fields
                     \o <<"where id =", "'">> \o id \o <<"'">>
        IN
        IF id = <<>> THEN Raise("ValueError", st)
        ELSE IF ~conn THEN NoConn(st)
        ELSE Only({IF x.err # "" THEN Raise(x.err, x.st)
                   ELSE Result("", PyStr(id), x.st)
                     : x \in {ExecUpdate(st, sql)}})
    ELSE Result("", PyNone, st)

RECURSIVE select_obj(_, _)
select_obj(column_headers, row) ==
    IF column_headers = <<>> THEN <<>>
    ELSE LET header == Head(column_headers).name
             value == ToPy(row.vals[header])
         IN <<Field(header, IF header = "id" THEN PyStr(str(value)) ELSE value)>>
              \o select_obj(Tail(column_headers), row)

select(conn, st, table_name, id) ==
    LET sql == <<"select * from", table_name, "where id =", "'">> \o id \o <<"'">>
    IN
    IF ~conn THEN NoConn(st)
    ELSE Only({IF x.err # "" THEN Raise(x.err, st)
               ELSE IF x.rows = {} THEN Raise("IndexError", st)
               ELSE Only({[Result("", PyNone, st) EXCEPT
                              !.obj = select_obj(st.db[table_name].cols, row)]
                            : row \in {CHOOSE r \in x.rows : TRUE}})
                 : x \in {ExecSelect(st, sql)}})

\* a push that inserts whatever the record's id
push_always_insert(conn, st, table_name, data, id_type, uuid) ==
    LET e == table_exists(conn, st, table_name) IN
    IF e.exc # "" THEN [route |-> "", res |-> e]
    ELSE IF e.ret = PyBool(FALSE) THEN
        Only({IF c.exc # "" THEN [route |-> "create", res |-> c]
              ELSE [route |-> "create",
                    res |-> insert(conn, c.st, table_name, data, id_type, uuid)]
                : c \in {create_table(conn, st, table_name, data, id_type)}})
    ELSE [route |-> "insert", res |-> insert(conn, st, table_name, data, id_type, uuid)]

\* route names the branch push takes
push(conn, st, table_name, data, id_type, uuid) ==
    LET e == table_exists(conn, st, table_name) IN
    IF e.exc # "" THEN [route |-> "", res |-> e]
    ELSE IF e.ret = PyBool(FALSE) THEN
        Only({IF c.exc # "" THEN [route |-> "create", res |-> c]
              ELSE [route |-> "create",
                    res |-> insert(conn, c.st, table_name, data, id_type, uuid)]
                : c \in {create_table(conn, st, table_name, data, id_type)}})
    ELSE
        LET id == find_id(data, <<>>) IN
        IF id # <<>> THEN [route |-> "update", res |-> update(conn, st, table_name, data)]
        ELSE [route |-> "insert", res |-> insert(conn, st, table_name, data, id_type, uuid)]

\* ------------------------------------------------------------------------
\* Inputs
\* ------------------------------------------------------------------------
\* the npc of the module's script, with the boolean of its employee
Npc == <<Field("name", PyStr(<<"x">>)), Field("health", PyFloat(678)),
         Field("gold", PyInt(999)), Field("has_license", PyBool(TRUE))>>
\* npc1 of the script: a selected row, renamed, pushed back
Helga == <<Field("id", PyStr(<<"1">>)), Field("name", PyStr(<<"y">>)),
           Field("has_license", PyBool(FALSE))>>
\* an integer id, and an integer for the name column
Seven == <<Field("id", PyInt(7)), Field("name", PyInt(5))>>
\* a name with a doubled quote in it, otherwise the npc
Quoted == <<Field("name", PyStr(<<"x", "'", "'">>)), Field("health", PyFloat(678)),
            Field("gold", PyInt(999)), Field("has_license", PyBool(TRUE))>>
\* a name that closes its literal and opens a comment
Inject == <<Field("name", PyStr(<<"x", "'", "/*">>)), Field("id", PyStr(<<"1">>))>>
Blank == <<Field("id", PyStr(<<>>)), Field("name", PyStr(<<"x">>))>>

AllRecords == {<<>>, Npc, Helga, Seven, Quoted, Inject, Blank}

\* the values uuid4() can draw
UUIDs == {<<"u1">>, <<"u2">>}

AllSelectIds == {<<"1">>, <<"7">>, <<"u1">>, <<"9">>, <<"'">>}

\* ------------------------------------------------------------------------
\* State
\* ------------------------------------------------------------------------
VARIABLES
    conn,      \* self.conn is a Connection (TRUE) or None (FALSE)
    store,     \* the database file and the connection's view of it
    last,      \* the call that has just returned: its arguments, its outcome
               \* and the tables before it; Idle between calls
    inserted,  \* per table, what the last insert() that returned has returned
    touched    \* the table names create_table or push has been called on

vars == <<conn, store, last, inserted, touched>>

\* With no connection a call that reaches self.conn raises AttributeError
\* whatever its arguments: two records and one id stand for all of them.
Records == IF conn THEN AllRecords ELSE {<<>>, Npc}
SelectIds == IF conn THEN AllSelectIds ELSE {<<"1">>}

NoRet == [t |-> "noret", n |-> 0, s |-> <<>>]

NoTables == [t \in TableNames |-> NoTable]

Idle ==
    [op |-> "idle", table |-> "", data |-> <<>>, id_type |-> "", id |-> <<>>,
     route |-> "", ins |-> FALSE, exc |-> "", ret |-> PyNone, obj |-> <<>>,
     pre |-> NoTables, prev |-> NoRet]

Call(op, table, data, id_type, id, route, ins, res) ==
    [op |-> op, table |-> table, data |-> data, id_type |-> id_type, id |-> id,
     route |-> route, ins |-> ins, exc |-> res.exc, ret |-> res.ret, obj |-> res.obj,
     pre |-> store.db, prev |-> IF table \in TableNames THEN inserted[table] ELSE NoRet]

Init ==
    /\ conn = FALSE
    /\ store = Store(NoTables, 0)
    /\ inserted = [t \in TableNames |-> NoRet]
    /\ last = Idle
    /\ touched = {}

Rows(db, table) == db[table].rows

\* the id_type argument with the value uuid4() draws when the call draws one
Draws == {<<"SEQUENTIAL", <<>>>>} \cup {<<"UUID4", u>> : u \in UUIDs}

open_conn ==
    /\ last = Idle
    /\ conn' = TRUE
    /\ last' = Call("open_conn", "", <<>>, "", <<>>, "", FALSE, Result("", PyNone, store))
    /\ UNCHANGED <<store, inserted, touched>>

\* the next connection starts with no last inserted rowid
close_conn ==
    /\ last = Idle
    /\ conn' = FALSE
    /\ store' = IF conn THEN Store(store.db, 0) ELSE store
    /\ last' = Call("close_conn", "", <<>>, "", <<>>, "", FALSE, Result("", PyNone, store))
    /\ UNCHANGED <<inserted, touched>>

TableExists(table) ==
    /\ last = Idle
    /\ \E r \in {table_exists(conn, store, table)} :
          /\ store' = r.st
          /\ last' = Call("table_exists", table, <<>>, "", <<>>, "", FALSE, r)
    /\ UNCHANGED <<conn, inserted, touched>>

CreateTable(table, schema, id_type) ==
    /\ last = Idle
    /\ \E r \in {create_table(conn, store, table, schema, id_type)} :
          /\ store' = r.st
          /\ last' = Call("create_table", table, schema, id_type, <<>>, "", FALSE, r)
    /\ touched' = touched \cup {table}
    /\ UNCHANGED <<conn, inserted>>

Insert(table, data, id_type, uuid) ==
    /\ last = Idle
    /\ Cardinality(Rows(store.db, table)) < MaxRows
    /\ \E r \in {insert(conn, store, table, data, id_type, uuid)} :
          /\ store' = r.st
          /\ last' = Call("insert", table, data, id_type, <<>>, "", r.exc = "", r)
          /\ inserted' = IF r.exc = "" THEN [inserted EXCEPT ![table] = r.ret]
                         ELSE inserted
    /\ UNCHANGED <<conn, touched>>

Update(table, data) ==
    /\ last = Idle
    /\ \E r \in {update(conn, store, table, data)} :
          /\ store' = r.st
          /\ last' = Call("update", table, data, "", <<>>, "", FALSE, r)
    /\ UNCHANGED <<conn, inserted, touched>>

Select(table, id) ==
    /\ last = Idle
    /\ \E r \in {select(conn, store, table, id)} :
          /\ store' = r.st
          /\ last' = Call("select", table, <<>>, "", id, "", FALSE, r)
    /\ UNCHANGED <<conn, inserted, touched>>

Push(table, data, id_type, uuid) ==
    /\ last = Idle
    /\ Cardinality(Rows(store.db, table)) < MaxRows
    /\ \E p \in {push(conn, store, table, data, id_type, uuid)} :
          LET r == p.res
              ins == p.route \in {"create", "insert"} /\ r.exc = ""
          IN
          /\ store' = r.st
          /\ last' = Call("push", table, data, id_type, <<>>, p.route, ins, r)
          /\ inserted' = IF ins THEN [inserted EXCEPT ![table] = r.ret] ELSE inserted
    /\ touched' = touched \cup {table}
    /\ UNCHANGED conn

\* the caller has the result and goes on to its next call
Proceed ==
    /\ last # Idle
    /\ last' = Idle
    /\ UNCHANGED <<conn, store, inserted, touched>>

Next ==
    \/ open_conn
    \/ close_conn
    \/ \E table \in TableNames : TableExists(table)
    \/ \E table \in TableNames, schema \in Records, id_type \in IDTypes :
          CreateTable(table, schema, id_type)
    \/ \E table \in TableNames, data \in Records, d \in Draws :
          Insert(table, data, d[1], d[2])
    \/ \E table \in TableNames, data \in Records : Update(table, data)
    \/ \E table \in TableNames, id \in SelectIds : Select(table, id)
    \/ \E table \in TableNames, data \in Records, d \in Draws :
          Push(table, data, d[1], d[2])
    \/ Proceed

Spec == Init /\ [][Next]_vars

\* ------------------------------------------------------------------------
\* Vocabulary of the properties
\* ------------------------------------------------------------------------
Has(data, k) == k \in Keys(data)
Get(data, k) == data[CHOOSE i \in 1..Len(data) : data[i].k = k].v
NonIdKeys(data) == Keys(data) \ {"id"}

\* the table the last call was about, before and after it
Before == last.pre[last.table]
After == store.db[last.table]

\* the id of a stored row as the layer hands it out
RowId(r) == str(ToPy(IdKey(r)))
RowsWithId(tbl, id) == {r \in tbl.rows : RowId(r) = id}

\* the strategy a table was created with
StrategyOf(tbl) == IF tbl.autoinc THEN "SEQUENTIAL" ELSE "UUID4"

\* the column names of a table, in order, without the leading id column
RECURSIVE NamesOf(_)
NamesOf(cols) == IF cols = <<>> THEN <<>> ELSE <<Head(cols).name>> \o NamesOf(Tail(cols))
RECURSIVE KeysInOrder(_)
KeysInOrder(data) == IF data = <<>> THEN <<>> ELSE <<Head(data).k>> \o KeysInOrder(Tail(data))
RECURSIVE Without(_, _)
Without(seq, x) ==
    IF seq = <<>> THEN <<>>
    ELSE (IF Head(seq) = x THEN <<>> ELSE <<Head(seq)>>) \o Without(Tail(seq), x)

\* the table has the id column first and then exactly the record's fields
ShapedLike(tbl, data) ==
    /\ tbl.exists
    /\ Len(tbl.cols) = Len(data) + 1
    /\ tbl.cols[1].name = "id"
    /\ Tail(NamesOf(tbl.cols)) = KeysInOrder(data)
    /\ \A i \in 1..Len(data) : tbl.cols[i + 1].type = sqlite_type(data[i].v)

QuoteFree(data) ==
    \A i \in 1..Len(data) : \A j \in 1..Len(data[i].v.s) : data[i].v.s[j] # "'"

\* select(table, id) run on the state the last call left
Selected(id) == select(conn, store, last.table, id)

PushedOnMissing == last.op = "push" /\ conn /\ ~Before.exists
PushedOnExisting == last.op = "push" /\ conn /\ Before.exists

\* ------------------------------------------------------------------------
\* Properties
\* ------------------------------------------------------------------------

\* C1: push on a table that does not exist creates it, for every record, with
\* the id column and then exactly the record's columns in record order,
\* inserts exactly one row, and table_exists is true afterwards.
C1_PushCreatesTable ==
    PushedOnMissing =>
        /\ After.exists
        /\ NamesOf(After.cols) = <<"id">> \o Without(KeysInOrder(last.data), "id")
        /\ Cardinality(After.rows) = 1
        /\ table_exists(conn, store, last.table).ret = PyBool(TRUE)

\* C9: push on a table that does not exist, with a record that carries an id
\* field, ignores that id: the table gets the single id column and the other
\* fields, and one row with an id the store assigned or the layer generated.
C9_PushIgnoresPayloadId ==
    (PushedOnMissing /\ Has(last.data, "id")) =>
        /\ last.exc = ""
        /\ After.exists
        /\ NamesOf(After.cols) = <<"id">> \o Without(KeysInOrder(last.data), "id")
        /\ Cardinality(After.rows) = 1
        /\ \A r \in After.rows : last.ret = PyStr(RowId(r))

\* C5: an id push returns is the id of a row of the table right after the
\* call: select(table, returned id) finds it.
C5_PushReturnsLiveId ==
    (last.op = "push" /\ last.exc = "" /\ last.ret.t = "str" /\ last.ret.s # <<>>) =>
        Selected(last.ret.s).exc = ""

\* C7: update with a record that has no id field fails with the validation
\* error (ValueError in the code) and leaves the tables as they were.
C7_UpdateWithoutIdFails ==
    (last.op = "update" /\ ~Has(last.data, "id")) =>
        /\ last.exc = "ValueError"
        /\ store.db = last.pre

\* C8: select with an id that matches no row fails with an explicit NotFound
\* error, never by indexing into the empty result (IndexError).
C8_SelectMissingIsNotFound ==
    (/\ last.op = "select"
     /\ conn
     /\ Before.exists
     /\ \A j \in 1..Len(last.id) : last.id[j] # "'"
     /\ RowsWithId(Before, last.id) = {}) =>
        /\ last.exc = "NotFound"
        /\ last.exc # "IndexError"

\* C10: table_exists(name) is false for a name neither create_table nor push
\* has been called on, and true right after create_table(name, record) with a
\* record of at least one field, on the same open connection.
C10_TableExistsReflectsCreation ==
    /\ \A name \in TableNames \ touched :
          table_exists(TRUE, store, name).ret = PyBool(FALSE)
    /\ (last.op = "create_table" /\ conn /\ Len(last.data) >= 1) =>
          table_exists(conn, store, last.table).ret = PyBool(TRUE)

\* ------------------------------------------------------------------------
\* Properties of the calls that succeed
\* ------------------------------------------------------------------------

\* every field of the record but id names a column whose declared type is the
\* type the layer infers for the field's value
TypesMatch(tbl, data) ==
    \A i \in 1..Len(data) :
        data[i].k # "id" =>
            \E c \in 1..Len(tbl.cols) :
                /\ tbl.cols[c].name = data[i].k
                /\ tbl.cols[c].type = sqlite_type(data[i].v)

\* what select hands back for a written value: the value, a boolean as the
\* text of str(value)
ReadsBack(got, written) ==
    IF written.t = "bool" THEN got = PyStr(str(written)) ELSE PyEq(got, written)

PushId == find_id(last.data, <<>>)
AddedRows == After.rows \ Before.rows

C3_SelectAfterInsert ==
    (last.ins /\ last.data # <<>> /\ ShapedLike(After, last.data)) =>
        LET r == Selected(last.ret.s) IN
        /\ r.exc = ""
        /\ Has(r.obj, "id")
        /\ Get(r.obj, "id") = last.ret
        /\ \A k \in NonIdKeys(last.data) :
              Has(r.obj, k) /\ PyEq(Get(r.obj, k), Get(last.data, k))

\* C3, amended: for a record whose values hold no quote character, the
\* selected record has the returned id as its id field, equals the inserted
\* record on every integer, float and string field, and has the text "True"
\* or "False" on every boolean field.
C3_SelectAfterInsertAsStored ==
    (last.ins /\ last.data # <<>> /\ ShapedLike(After, last.data)
        /\ QuoteFree(last.data)) =>
        LET r == Selected(last.ret.s) IN
        /\ r.exc = ""
        /\ Has(r.obj, "id")
        /\ Get(r.obj, "id") = last.ret
        /\ Keys(r.obj) = Keys(last.data) \cup {"id"}
        /\ \A k \in NonIdKeys(last.data) :
              Has(r.obj, k) /\ ReadsBack(Get(r.obj, k), Get(last.data, k))

C3_Witness ==
    /\ last.ins
    /\ last.data = Npc
    /\ ShapedLike(After, last.data)
    /\ Selected(last.ret.s).exc = ""
    /\ Get(Selected(last.ret.s).obj, "has_license") = PyStr(<<"T", "r", "u", "e">>)
    /\ Get(Selected(last.ret.s).obj, "health") = PyFloat(678)

UpdateId == str(Get(last.data, "id"))
UpdatedKnownId ==
    /\ last.op = "update"
    /\ last.exc = ""
    /\ Has(last.data, "id")
    /\ RowsWithId(Before, UpdateId) # {}

\* C4 as stated: update with the id of an existing row keeps the number of
\* rows and every row with another id, and a select of the id shows the
\* record's values.
C4_UpdateChangesOneRow ==
    UpdatedKnownId =>
        LET r == Selected(UpdateId) IN
        /\ Cardinality(After.rows) = Cardinality(Before.rows)
        /\ \A x \in Before.rows : RowId(x) # UpdateId => x \in After.rows
        /\ r.exc = ""
        /\ \A k \in NonIdKeys(last.data) :
              Has(r.obj, k) /\ PyEq(Get(r.obj, k), Get(last.data, k))

\* C4, amended: as stated for a record whose values hold no quote character
\* and whose fields are written to columns of the type inferred for them;
\* the select shows integer, float and string values as written and boolean
\* values as the text "True" or "False".
C4_UpdateChangesOneRowAsStored ==
    (UpdatedKnownId /\ QuoteFree(last.data) /\ TypesMatch(Before, last.data)) =>
        LET r == Selected(UpdateId) IN
        /\ Cardinality(After.rows) = Cardinality(Before.rows)
        /\ \A x \in Before.rows : RowId(x) # UpdateId => x \in After.rows
        /\ r.exc = ""
        /\ \A k \in NonIdKeys(last.data) :
              Has(r.obj, k) /\ ReadsBack(Get(r.obj, k), Get(last.data, k))

C4_Witness ==
    /\ UpdatedKnownId
    /\ last.data = Helga
    /\ Cardinality(Before.rows) = 2
    /\ After # Before
    /\ Get(Selected(UpdateId).obj, "name") = PyStr(<<"y">>)

====
